---- MODULE Spec2Model ----
(***************************************************************************)
(* Byte-level model of the slotted leaf page of mini-base                  *)
(* (src/src/page.rs).  The page is the mapped byte region itself: every    *)
(* operation re-parses header fields, slot directory and heap records from *)
(* the bytes, exactly as the Rust code does.                               *)
(***************************************************************************)
EXTENDS Integers, Sequences, FiniteSets, TLC

(* ---------------- bounds of the model ---------------- *)
\* length of the mapped region handed to LeafPage::new / LeafPage::from
PageLength == 104
\* number of mutating calls (insert_key_value, delete_value, LeafPage::new)
MaxOps == 5
\* number of raw Pager writes on a region
MaxWrites == 2
\* page_size of the data file Controller::from opens, and its number of pages
FilePageSize == 32
FilePages == 2

(* ---------------- inputs ---------------- *)
\* keys, as byte sequences; <<1>> is a proper prefix of <<1, 2>>
Keys == {<<1>>, <<1, 2>>, <<2>>}
\* values, as byte sequences of two different lengths
Values == {<<1>>, <<2, 1>>}

(* ---------------- layout constants ---------------- *)
HEADER == 0
CAPACITY == 1
DATA_HEAD_OFFSET == 9
DATA_TAIL_OFFSET == 13
SORTED_TABLE == 25
LEAF_HEADER == 128
INNER_SORTED_TABLE == 21
INNER_HEADER == 129

VARIABLES page, prev, searchImpl, lastOp, lastRes, lastGot, live, prior, nops,
          file, mete_data, root_node

vars == <<page, prev, searchImpl, lastOp, lastRes, lastGot, live, prior, nops,
          file, mete_data, root_node>>

(* ---------------- Pager: typed access to the mapped bytes ---------------- *)
read_u8(p, offset) == p[offset]

write_u8(p, offset, value) == [p EXCEPT ![offset] = value]

read_u32(p, offset) ==
    p[offset] + 256 * p[offset + 1] + 65536 * p[offset + 2] + 16777216 * p[offset + 3]

\* variant: most significant byte first
to_be_bytes(value) ==
    << (value \div 16777216) % 256, (value \div 65536) % 256, (value \div 256) % 256,
       value % 256 >>

to_le_bytes(value) ==
    << value % 256, (value \div 256) % 256, (value \div 65536) % 256,
       (value \div 16777216) % 256 >>

\* the loop of Pager::write_bytes, one byte per iteration
RECURSIVE write_bytes(_, _, _)
write_bytes(p, offset, value) ==
    IF value = <<>> THEN p
    ELSE write_bytes([p EXCEPT ![offset] = Head(value)], offset + 1, Tail(value))

write_u32(p, offset, value) == write_bytes(p, offset, to_le_bytes(value))

read_bytes(p, offset, length) == [i \in 1..length |-> p[offset + i - 1]]

(* ---------------- DataPager: header fields and slot directory ------------ *)
get_header(p) == read_u8(p, HEADER)

get_capacity(p) == read_u32(p, CAPACITY)

get_data_head_offset(p) == read_u32(p, DATA_HEAD_OFFSET)

get_data_tail_offset(p) == read_u32(p, DATA_TAIL_OFFSET)

get_free_space(p) == get_data_tail_offset(p) - get_data_head_offset(p)

\* the directory as a sequence; slot i of the code is element i + 1
get_sorted_table(p) ==
    LET sorted_table_length == (get_data_head_offset(p) - SORTED_TABLE) \div 4
    IN  [i \in 1..sorted_table_length |-> read_u32(p, SORTED_TABLE + 4 * (i - 1))]

\* the key bytes of the key record at key_offset, as the comparator reads them
key_data(p, key_offset) == read_bytes(p, key_offset + 4, read_u32(p, key_offset))

\* <[u8] as Ord>::cmp : unsigned lexicographic, a proper prefix is Less
RECURSIVE cmp(_, _)
cmp(a, b) ==
    IF a = <<>> /\ b = <<>> THEN "Equal"
    ELSE IF a = <<>> THEN "Less"
    ELSE IF b = <<>> THEN "Greater"
    ELSE IF Head(a) < Head(b) THEN "Less"
    ELSE IF Head(a) > Head(b) THEN "Greater"
    ELSE cmp(Tail(a), Tail(b))

\* slice::binary_search_by as a loop with early return on Equal
RECURSIVE search_loop(_, _, _, _, _)
search_loop(p, key, sorted_table, left, right) ==
    IF left < right
    THEN LET mid == left + (right - left) \div 2
             c == cmp(key_data(p, sorted_table[mid + 1]), key)
         IN  IF c = "Less" THEN search_loop(p, key, sorted_table, mid + 1, right)
             ELSE IF c = "Greater" THEN search_loop(p, key, sorted_table, left, mid)
             ELSE <<TRUE, mid>>
    ELSE <<FALSE, left>>

\* variant: a final Less does not move the insertion point past base
RECURSIVE search_halving_NoAdjust(_, _, _, _, _)
search_halving_NoAdjust(p, key, sorted_table, base, size) ==
    IF size > 1
    THEN LET half == size \div 2
             mid == base + half
             c == cmp(key_data(p, sorted_table[mid + 1]), key)
         IN  search_halving_NoAdjust(p, key, sorted_table,
                                     IF c = "Greater" THEN base ELSE mid, size - half)
    ELSE LET c == cmp(key_data(p, sorted_table[base + 1]), key)
         IN  IF c = "Equal" THEN <<TRUE, base>> ELSE <<FALSE, base>>

\* slice::binary_search_by as a halving loop that compares for Equal at the end
RECURSIVE search_halving(_, _, _, _, _)
search_halving(p, key, sorted_table, base, size) ==
    IF size > 1
    THEN LET half == size \div 2
             mid == base + half
             c == cmp(key_data(p, sorted_table[mid + 1]), key)
         IN  search_halving(p, key, sorted_table,
                            IF c = "Greater" THEN base ELSE mid, size - half)
    ELSE LET c == cmp(key_data(p, sorted_table[base + 1]), key)
         IN  IF c = "Equal" THEN <<TRUE, base>>
             ELSE <<FALSE, base + (IF c = "Less" THEN 1 ELSE 0)>>

\* returns <<exist, index>>, index counted from 0 as in the code
binary_search(impl, p, key, sorted_table) ==
    IF sorted_table = <<>> THEN <<FALSE, 0>>
    ELSE IF impl = "loop" THEN search_loop(p, key, sorted_table, 0, Len(sorted_table))
    ELSE search_halving(p, key, sorted_table, 0, Len(sorted_table))

(* ---------------- construction and validation ---------------- *)
\* variant: data_head_offset is left as the region had it
common_init_KeepsHead(p, sorted_table_offset, length, header) ==
    LET p1 == write_u32(p, CAPACITY, length)
        p3 == write_u32(p1, DATA_TAIL_OFFSET, length)
    IN  write_u8(p3, HEADER, header)

\* sorted_table_offset is the page kind's get_sorted_table_offset()
common_init(p, sorted_table_offset, length, header) ==
    LET p1 == write_u32(p, CAPACITY, length)
        p2 == write_u32(p1, DATA_HEAD_OFFSET, sorted_table_offset)
        p3 == write_u32(p2, DATA_TAIL_OFFSET, length)
    IN  write_u8(p3, HEADER, header)

\* variant: data_tail_offset is not compared with the mapped length
valid_common_data_NoUpperBound(p, sorted_table_offset, length, expect_header) ==
    /\ get_header(p) = expect_header
    /\ get_capacity(p) = length
    /\ ~(get_data_head_offset(p) < sorted_table_offset)
    /\ ~(get_data_tail_offset(p) < get_data_head_offset(p))

\* TRUE when valid_common_data returns None
valid_common_data(p, sorted_table_offset, length, expect_header) ==
    /\ get_header(p) = expect_header
    /\ get_capacity(p) = length
    /\ ~(get_data_head_offset(p) < sorted_table_offset)
    /\ ~(get_data_tail_offset(p) < get_data_head_offset(p)
         \/ get_data_tail_offset(p) > length)

(* ---------------- LeafPage: record layout ---------------- *)
get_value_required_space(value) == 4 + Len(value)

get_key_required_space(key) == 4 + Len(key) + 1 + 4

get_value_offset_position(key_offset, key_size) == key_offset + 4 + key_size + 1

get_value_deleted_position(key_offset, key_size) == key_offset + 4 + key_size

\* [deleted, value] of the record at key_offset
get_value_by_key_offset(p, key_offset) ==
    LET key_size == read_u32(p, key_offset)
        deleted == read_u8(p, get_value_deleted_position(key_offset, key_size)) = 1
        value_offset == read_u32(p, get_value_offset_position(key_offset, key_size))
        value_size == read_u32(p, value_offset)
    IN  [deleted |-> deleted, value |-> read_bytes(p, value_offset + 4, value_size)]

update_value_delete(p, key_offset, deleted) ==
    LET key_size == read_u32(p, key_offset)
    IN  write_u8(p, get_value_deleted_position(key_offset, key_size),
                 IF deleted THEN 1 ELSE 0)

\* variant: the head is advanced without looking at data_tail_offset
allocate_space_head_Unchecked(p, size) ==
    [some |-> TRUE, offset |-> get_data_head_offset(p),
     page |-> write_u32(p, DATA_HEAD_OFFSET, get_data_head_offset(p) + size)]

\* Option<usize> together with the page after the call
allocate_space_head(p, size) ==
    LET data_head_offset == get_data_head_offset(p)
        data_tail_offset == get_data_tail_offset(p)
        new_data_head_offset == data_head_offset + size
    IN  IF new_data_head_offset > data_tail_offset
        THEN [some |-> FALSE, offset |-> 0, page |-> p]
        ELSE [some |-> TRUE, offset |-> data_head_offset,
              page |-> write_u32(p, DATA_HEAD_OFFSET, new_data_head_offset)]

\* a size above data_tail_offset aborts the subtraction; the caller sees an
\* abort either way, so it is folded into the None case
allocate_space_tail(p, size) ==
    LET data_head_offset == get_data_head_offset(p)
        data_tail_offset == get_data_tail_offset(p)
        new_data_tail_offset == data_tail_offset - size
    IN  IF new_data_tail_offset < data_head_offset
        THEN [some |-> FALSE, offset |-> 0, page |-> p]
        ELSE [some |-> TRUE, offset |-> new_data_tail_offset,
              page |-> write_u32(p, DATA_TAIL_OFFSET, new_data_tail_offset)]

(* ---------------- LeafPage: operations ---------------- *)
NoneValue == [some |-> FALSE, value |-> <<>>]

SomeValue(v) == [some |-> TRUE, value |-> v]

get_value(impl, p, key) ==
    LET sorted_table == get_sorted_table(p)
        found == binary_search(impl, p, key, sorted_table)
    IN  IF ~found[1] THEN NoneValue
        ELSE LET r == get_value_by_key_offset(p, sorted_table[found[2] + 1])
             IN  IF r.deleted THEN NoneValue ELSE SomeValue(r.value)

\* variant: the new value is written over the old value record
override_value_InPlace(p, sorted_table, index, key, value) ==
    LET key_offset == sorted_table[index + 1]
        value_offset == read_u32(p, get_value_offset_position(key_offset, Len(key)))
        p1 == update_value_delete(p, key_offset, FALSE)
        p2 == write_u32(p1, value_offset, Len(value))
    IN  [res |-> "true", page |-> write_bytes(p2, value_offset + 4, value)]

\* result "true" / "false", or "panic" when an unwrap meets None; page is the
\* buffer as the call leaves it
override_value(p, sorted_table, index, key, value) ==
    LET key_offset == sorted_table[index + 1]
        old == get_value_by_key_offset(p, key_offset)
    IN  IF old.value = value
        THEN [res |-> "true",
              page |-> IF old.deleted THEN update_value_delete(p, key_offset, FALSE) ELSE p]
        ELSE IF get_free_space(p) < Len(value) + 4
        THEN [res |-> "false", page |-> p]
        ELSE LET p1 == IF old.deleted THEN update_value_delete(p, key_offset, FALSE) ELSE p
                 a == allocate_space_tail(p1, Len(value) + 4)
             IN  IF ~a.some THEN [res |-> "panic", page |-> a.page]
                 ELSE LET p2 == write_u32(a.page, a.offset, Len(value))
                          p3 == write_bytes(p2, a.offset + 4, value)
                      IN  [res |-> "true",
                           page |-> write_u32(p3,
                                       get_value_offset_position(key_offset, Len(key)),
                                       a.offset)]

\* variant: the slot receives its own offset instead of the key record's
update_sorted_table_SlotOffset(p, sorted_table, index, new_key_index_offset, new_key_offset) ==
    IF sorted_table = <<>> \/ index = Len(sorted_table) - 1
    THEN write_u32(p, new_key_index_offset, new_key_index_offset)
    ELSE LET move_offset == SORTED_TABLE + 4 * index
             bytes_to_move == read_bytes(p, move_offset, (Len(sorted_table) - index) * 4)
             p1 == write_bytes(p, move_offset + 4, bytes_to_move)
         IN  write_u32(p1, move_offset, new_key_index_offset)

\* the directory update at the end of insert_value
update_sorted_table(p, sorted_table, index, new_key_index_offset, new_key_offset) ==
    IF sorted_table = <<>> \/ index = Len(sorted_table) - 1
    THEN write_u32(p, new_key_index_offset, new_key_offset)
    ELSE LET move_offset == SORTED_TABLE + 4 * index
             bytes_to_move == read_bytes(p, move_offset, (Len(sorted_table) - index) * 4)
             p1 == write_bytes(p, move_offset + 4, bytes_to_move)
         IN  write_u32(p1, move_offset, new_key_offset)

\* insert_value once the free-space check has passed: value record, key
\* record, then the new slot
write_records(p, sorted_table, index, key, value) ==
    LET av == allocate_space_tail(p, get_value_required_space(value))
    IN  IF ~av.some THEN [res |-> "panic", page |-> av.page]
        ELSE
        LET p1 == write_u32(av.page, av.offset, Len(value))
            p2 == write_bytes(p1, av.offset + 4, value)
            ak == allocate_space_tail(p2, get_key_required_space(key))
        IN  IF ~ak.some THEN [res |-> "panic", page |-> ak.page]
            ELSE
            LET p3 == write_u32(ak.page, ak.offset, Len(key))
                p4 == write_bytes(p3, ak.offset + 4, key)
                p5 == write_u32(p4, get_value_offset_position(ak.offset, Len(key)),
                                av.offset)
                ah == allocate_space_head(p5, 4)
            IN  IF ~ah.some THEN [res |-> "panic", page |-> ah.page]
                ELSE [res |-> "true",
                      page |-> update_sorted_table(ah.page, sorted_table, index,
                                                   ah.offset, ak.offset)]

\* variant: the value record is allocated before the free-space check
insert_value_AllocatesFirst(p, sorted_table, index, key, value) ==
    LET required_space == 4 + Len(key) + 4 + 4 + Len(value) + 4
        av == allocate_space_tail(p, get_value_required_space(value))
    IN  IF get_free_space(p) < required_space
        THEN [res |-> "false", page |-> av.page]
        ELSE write_records(p, sorted_table, index, key, value)

insert_value(p, sorted_table, index, key, value) ==
    LET required_space == 4 + Len(key) + 4 + 4 + Len(value) + 4
    IN  IF get_free_space(p) < required_space
        THEN [res |-> "false", page |-> p]
        ELSE write_records(p, sorted_table, index, key, value)

insert_key_value(impl, p, key, value) ==
    LET sorted_table == get_sorted_table(p)
        found == binary_search(impl, p, key, sorted_table)
    IN  IF found[1] THEN override_value(p, sorted_table, found[2], key, value)
        ELSE insert_value(p, sorted_table, found[2], key, value)

\* variant: the tombstone is set at the returned index whether or not the
\* key was found
delete_value_IgnoresExist(impl, p, key) ==
    LET sorted_table == get_sorted_table(p)
        found == binary_search(impl, p, key, sorted_table)
    IN  IF found[2] >= Len(sorted_table) THEN [res |-> "false", page |-> p]
        ELSE [res |-> "true",
              page |-> update_value_delete(p, sorted_table[found[2] + 1], TRUE)]

delete_value(impl, p, key) ==
    LET sorted_table == get_sorted_table(p)
        found == binary_search(impl, p, key, sorted_table)
    IN  IF ~found[1] THEN [res |-> "false", page |-> p]
        ELSE [res |-> "true",
              page |-> update_value_delete(p, sorted_table[found[2] + 1], TRUE)]

(* ---------------- the state machine ---------------- *)
\* what the caller knows about a key: never inserted, last inserted with val,
\* or last deleted
Absent == [st |-> "absent", val |-> <<>>]

NoOp == [op |-> "new", key |-> <<>>, value |-> <<>>]

\* a freshly extended file is zero-filled
ZeroRegion == [i \in 0..(PageLength - 1) |-> 0]

ZeroFile == [i \in 0..(FilePages * FilePageSize - 1) |-> 0]

\* no Controller has been opened
NoNode == [res |-> "none"]

\* the data file and its metadata while no Controller is in use
NoController ==
    /\ file = ZeroFile
    /\ mete_data = [root_page_offset |-> 0, page_size |-> FilePageSize]
    /\ root_node = NoNode

Init ==
    /\ searchImpl \in {"loop", "halving"}
    /\ page = common_init(ZeroRegion, SORTED_TABLE, PageLength, LEAF_HEADER)
    /\ prev = ZeroRegion
    /\ lastOp = NoOp
    /\ lastRes = "ok"
    /\ lastGot = NoneValue
    /\ live = [k \in Keys |-> Absent]
    /\ prior = Absent
    /\ nops = 0
    /\ NoController

\* LeafPage::new on the region again (Controller::new on an existing data
\* file): only the header fields are rewritten
LeafNew ==
    /\ nops < MaxOps
    /\ page' = common_init(page, SORTED_TABLE, PageLength, LEAF_HEADER)
    /\ prev' = page
    /\ lastOp' = NoOp
    /\ lastRes' = "ok"
    /\ lastGot' = NoneValue
    /\ live' = [k \in Keys |-> Absent]
    /\ prior' = Absent
    /\ nops' = nops + 1
    /\ UNCHANGED <<searchImpl, file, mete_data, root_node>>

LeafFrom ==
    /\ lastOp.op # "from"
    /\ lastOp' = [op |-> "from", key |-> <<>>, value |-> <<>>]
    /\ lastRes' = IF valid_common_data(page, SORTED_TABLE, PageLength, LEAF_HEADER) THEN "ok" ELSE "err"
    /\ prev' = page
    /\ lastGot' = NoneValue
    /\ prior' = Absent
    /\ UNCHANGED <<page, searchImpl, live, nops, file, mete_data, root_node>>

Insert(key, value) ==
    /\ nops < MaxOps
    /\ LET r == insert_key_value(searchImpl, page, key, value)
       IN  /\ page' = r.page
           /\ lastRes' = r.res
           /\ live' = IF r.res = "true"
                      THEN [live EXCEPT ![key] = [st |-> "live", val |-> value]]
                      ELSE live
    /\ prev' = page
    /\ lastOp' = [op |-> "insert", key |-> key, value |-> value]
    /\ lastGot' = NoneValue
    /\ prior' = live[key]
    /\ nops' = nops + 1
    /\ UNCHANGED <<searchImpl, file, mete_data, root_node>>

Delete(key) ==
    /\ nops < MaxOps
    /\ LET r == delete_value(searchImpl, page, key)
       IN  /\ page' = r.page
           /\ lastRes' = r.res
           /\ live' = IF r.res = "true"
                      THEN [live EXCEPT ![key] = [st |-> "deleted", val |-> <<>>]]
                      ELSE live
    /\ prev' = page
    /\ lastOp' = [op |-> "delete", key |-> key, value |-> <<>>]
    /\ lastGot' = NoneValue
    /\ prior' = live[key]
    /\ nops' = nops + 1
    /\ UNCHANGED <<searchImpl, file, mete_data, root_node>>

Get(key) ==
    /\ lastOp.op \notin {"get", "from"}
    /\ lastGot' = get_value(searchImpl, page, key)
    /\ lastOp' = [op |-> "get", key |-> key, value |-> <<>>]
    /\ lastRes' = "ok"
    /\ prev' = page
    /\ prior' = live[key]
    /\ UNCHANGED <<page, searchImpl, live, nops, file, mete_data, root_node>>

Next ==
    \/ LeafNew
    \/ LeafFrom
    \/ \E key \in Keys, value \in Values : Insert(key, value)
    \/ \E key \in Keys : Delete(key)
    \/ \E key \in Keys : Get(key)

Spec == Init /\ [][Next]_vars

(* ---------------- raw regions: Pager writes, new and from of both kinds --- *)
\* offsets and values the raw writes are drawn from
ByteOffsets == {HEADER, PageLength - 5}

ByteValues == {0, LEAF_HEADER, INNER_HEADER}

WordOffsets == {CAPACITY, DATA_HEAD_OFFSET, DATA_TAIL_OFFSET, PageLength - 4}

\* 16909060 = 0x01020304, 2147483647 = 0x7FFFFFFF (the largest word the
\* checker's integers hold)
WordValues == {0, INNER_SORTED_TABLE, SORTED_TABLE - 1, PageLength, PageLength + 1,
               16909060, 2147483647}

RangeOffsets == {HEADER, PageLength - 8}

ByteStrings == {<<7>>, <<228, 187, 138>>}

\* an uninitialised region of the file
InitRegion ==
    /\ searchImpl \in {"loop", "halving"}
    /\ page = ZeroRegion
    /\ prev = ZeroRegion
    /\ lastOp = [op |-> "none"]
    /\ lastRes = "ok"
    /\ lastGot = NoneValue
    /\ live = [k \in Keys |-> Absent]
    /\ prior = Absent
    /\ nops = 0
    /\ NoController

RawWrite(op, p) ==
    /\ nops < MaxWrites
    /\ page' = p
    /\ prev' = page
    /\ lastOp' = op
    /\ lastRes' = "ok"
    /\ nops' = nops + 1
    /\ UNCHANGED <<searchImpl, lastGot, live, prior, file, mete_data, root_node>>

WriteU8(offset, value) ==
    RawWrite([op |-> "write_u8", offset |-> offset, byte |-> value],
             write_u8(page, offset, value))

WriteU32(offset, value) ==
    RawWrite([op |-> "write_u32", offset |-> offset, word |-> value],
             write_u32(page, offset, value))

WriteBytes(offset, value) ==
    RawWrite([op |-> "write_bytes", offset |-> offset, bytes |-> value],
             write_bytes(page, offset, value))

InnerNew ==
    /\ nops < MaxOps
    /\ page' = common_init(page, INNER_SORTED_TABLE, PageLength, INNER_HEADER)
    /\ prev' = page
    /\ lastOp' = [op |-> "inner_new"]
    /\ lastRes' = "ok"
    /\ nops' = nops + 1
    /\ UNCHANGED <<searchImpl, lastGot, live, prior, file, mete_data, root_node>>

InnerFrom ==
    /\ lastOp.op # "inner_from"
    /\ lastOp' = [op |-> "inner_from"]
    /\ lastRes' = IF valid_common_data(page, INNER_SORTED_TABLE, PageLength, INNER_HEADER)
                  THEN "ok" ELSE "err"
    /\ prev' = page
    /\ UNCHANGED <<page, searchImpl, lastGot, live, prior, nops, file, mete_data, root_node>>

NextRegion ==
    \/ \E offset \in ByteOffsets, value \in ByteValues : WriteU8(offset, value)
    \/ \E offset \in WordOffsets, value \in WordValues : WriteU32(offset, value)
    \/ \E offset \in RangeOffsets, value \in ByteStrings : WriteBytes(offset, value)
    \/ LeafNew
    \/ InnerNew
    \/ LeafFrom
    \/ InnerFrom

SpecRegion == InitRegion /\ [][NextRegion]_vars

(* ---------------- the data file: Node::new, Node::from, Controller::from -- *)
\* page offsets of the data file
PageOffsets == {n * FilePageSize : n \in 0..(FilePages - 1)}

\* the bytes a mapping of [offset, offset + length) shows
create_mmap(f, offset, length) == [i \in 0..(length - 1) |-> f[offset + i]]

\* the file after the mapping's bytes are written through
mapped_back(f, offset, region) ==
    [i \in DOMAIN f |-> IF i >= offset /\ i < offset + Cardinality(DOMAIN region)
                        THEN region[i - offset] ELSE f[i]]

sorted_table_of(node_type) == IF node_type = "Leaf" THEN SORTED_TABLE ELSE INNER_SORTED_TABLE

header_of(node_type) == IF node_type = "Leaf" THEN LEAF_HEADER ELSE INNER_HEADER

\* Node::new: LeafPage::new or InnerPage::new on the region at offset
Node_new(f, offset, page_size, node_type) ==
    mapped_back(f, offset,
                common_init(create_mmap(f, offset, page_size),
                            sorted_table_of(node_type), page_size, header_of(node_type)))

\* Node::from: LeafPage::from or InnerPage::from on the region at offset;
\* offset and length are the extent of the mapping it validates
Node_from(f, offset, page_size, node_type) ==
    [res |-> IF valid_common_data(create_mmap(f, offset, page_size),
                                  sorted_table_of(node_type), page_size, header_of(node_type))
             THEN "ok" ELSE "err",
     node_type |-> node_type,
     offset |-> offset,
     length |-> page_size]

\* the node kind Controller::from reads off the header byte of the root page
root_node_type(f, md) ==
    LET root_page_offset == md.root_page_offset
        root_page == create_mmap(f, root_page_offset, md.page_size)
        page_header == read_u8(root_page, 0)
    IN  IF page_header = LEAF_HEADER THEN "Leaf" ELSE "Inner"

Controller_from(f, md) == Node_from(f, 0, md.page_size, root_node_type(f, md))

\* the leaf-page variables are not used while the data file is exercised
leaf_vars == <<page, prev, searchImpl, lastOp, lastRes, lastGot, live, prior, nops>>

InitFile ==
    /\ searchImpl \in {"loop", "halving"}
    /\ page = ZeroRegion
    /\ prev = ZeroRegion
    /\ lastOp = [op |-> "none"]
    /\ lastRes = "ok"
    /\ lastGot = NoneValue
    /\ live = [k \in Keys |-> Absent]
    /\ prior = Absent
    /\ nops = 0
    /\ file = ZeroFile
    /\ mete_data \in [root_page_offset : PageOffsets, page_size : {FilePageSize}]
    /\ root_node = NoNode

\* a page of the data file is formatted as a leaf or an inner node
NodeNew(offset, node_type) ==
    /\ file' = Node_new(file, offset, mete_data.page_size, node_type)
    /\ root_node' = NoNode
    /\ UNCHANGED <<mete_data, leaf_vars>>

\* the header byte of a page is rewritten through a Page mapping
PageWriteHeader(offset, value) ==
    /\ file' = mapped_back(file, offset,
                           write_u8(create_mmap(file, offset, mete_data.page_size), HEADER, value))
    /\ root_node' = NoNode
    /\ UNCHANGED <<mete_data, leaf_vars>>

ControllerFrom ==
    /\ root_node = NoNode
    /\ root_node' = Controller_from(file, mete_data)
    /\ UNCHANGED <<file, mete_data, leaf_vars>>

NextFile ==
    \/ \E offset \in PageOffsets, node_type \in {"Leaf", "Inner"} : NodeNew(offset, node_type)
    \/ \E offset \in PageOffsets, value \in ByteValues : PageWriteHeader(offset, value)
    \/ ControllerFrom

SpecFile == InitFile /\ [][NextFile]_vars

(* ---------------- the page module of src/src/lib.rs ---------------------- *)
\* the older layout: tail offset at 5, slot directory at 13, key records
\* [len][key][value_offset] without a tombstone byte
lib_DATA_TAIL_OFFSET == 5

lib_DATA_HEAD_OFFSET == 9

lib_SORTED_TABLE == 13

lib_LEAF_HEADER == 129

lib_get_data_head_offset(p) == read_u32(p, lib_DATA_HEAD_OFFSET)

lib_get_data_tail_offset(p) == read_u32(p, lib_DATA_TAIL_OFFSET)

lib_get_free_space(p) == lib_get_data_tail_offset(p) - lib_get_data_head_offset(p)

lib_get_sorted_table(p) ==
    LET sorted_table_length == (lib_get_data_head_offset(p) - lib_SORTED_TABLE) \div 4
    IN  [i \in 1..sorted_table_length |-> read_u32(p, lib_SORTED_TABLE + 4 * (i - 1))]

lib_init(p, length) ==
    LET p1 == write_u32(p, CAPACITY, length)
        p2 == write_u32(p1, lib_DATA_HEAD_OFFSET, lib_SORTED_TABLE)
        p3 == write_u32(p2, lib_DATA_TAIL_OFFSET, length)
    IN  write_u8(p3, HEADER, lib_LEAF_HEADER)

\* a slice of the mapping that ends after the page aborts the call
in_page(p, offset, length) == offset + length <= get_capacity(p)

\* the value behind slot index; panic when a read leaves the mapping
lib_get_value(p, sorted_table, index) ==
    LET key_offset == sorted_table[index + 1]
        key_size == read_u32(p, key_offset)
        value_offset == read_u32(p, key_offset + 4 + key_size)
        value_size == read_u32(p, value_offset)
    IN  IF ~in_page(p, key_offset, 4) THEN [panic |-> TRUE, value |-> <<>>]
        ELSE IF ~in_page(p, key_offset + 4 + key_size, 4) THEN [panic |-> TRUE, value |-> <<>>]
        ELSE IF ~in_page(p, value_offset, 4) THEN [panic |-> TRUE, value |-> <<>>]
        ELSE IF ~in_page(p, value_offset + 4, value_size) THEN [panic |-> TRUE, value |-> <<>>]
        ELSE [panic |-> FALSE, value |-> read_bytes(p, value_offset + 4, value_size)]

\* Option<&[u8]>, with res "panic" when get_value aborts
lib_get(impl, p, key) ==
    LET sorted_table == lib_get_sorted_table(p)
        found == binary_search(impl, p, key, sorted_table)
    IN  IF ~found[1] THEN [res |-> "ok", got |-> NoneValue]
        ELSE LET r == lib_get_value(p, sorted_table, found[2])
             IN  IF r.panic THEN [res |-> "panic", got |-> NoneValue]
                 ELSE [res |-> "ok", got |-> SomeValue(r.value)]

lib_allocate_space_head(p, size) ==
    LET data_head_offset == lib_get_data_head_offset(p)
        data_tail_offset == lib_get_data_tail_offset(p)
        new_data_head_offset == data_head_offset + size
    IN  IF new_data_head_offset > data_tail_offset
        THEN [some |-> FALSE, offset |-> 0, page |-> p]
        ELSE [some |-> TRUE, offset |-> data_head_offset,
              page |-> write_u32(p, lib_DATA_HEAD_OFFSET, new_data_head_offset)]

lib_allocate_space_tail(p, size) ==
    LET data_head_offset == lib_get_data_head_offset(p)
        data_tail_offset == lib_get_data_tail_offset(p)
        new_data_tail_offset == data_tail_offset - size
    IN  IF new_data_tail_offset < data_head_offset
        THEN [some |-> FALSE, offset |-> 0, page |-> p]
        ELSE [some |-> TRUE, offset |-> new_data_tail_offset,
              page |-> write_u32(p, lib_DATA_TAIL_OFFSET, new_data_tail_offset)]

lib_override_value(p, sorted_table, index, value) ==
    LET old == lib_get_value(p, sorted_table, index)
    IN  IF old.panic THEN [res |-> "panic", page |-> p]
        ELSE IF old.value = value THEN [res |-> "true", page |-> p]
        ELSE IF lib_get_free_space(p) < Len(value) + 4 THEN [res |-> "false", page |-> p]
        ELSE LET a == lib_allocate_space_tail(p, Len(value) + 4)
             IN  IF ~a.some THEN [res |-> "panic", page |-> a.page]
                 ELSE LET p1 == write_u32(a.page, a.offset, Len(value))
                          p2 == write_bytes(p1, a.offset + 4, value)
                      IN  [res |-> "true",
                           page |-> write_u32(p2, lib_SORTED_TABLE + index * 4, a.offset)]

lib_insert_value(p, sorted_table, index, key, value) ==
    LET required_space == 4 + Len(key) + 4 + 4 + Len(value) + 4
    IN  IF lib_get_free_space(p) < required_space THEN [res |-> "false", page |-> p]
        ELSE
        LET av == lib_allocate_space_tail(p, 4 + Len(value))
        IN  IF ~av.some THEN [res |-> "panic", page |-> av.page]
            ELSE
            LET p1 == write_u32(av.page, av.offset, Len(value))
                p2 == write_bytes(p1, av.offset + 4, value)
                ak == lib_allocate_space_tail(p2, 4 + Len(key) + 4)
            IN  IF ~ak.some THEN [res |-> "panic", page |-> ak.page]
                ELSE
                LET p3 == write_u32(ak.page, ak.offset, Len(key))
                    p4 == write_bytes(p3, ak.offset + 4, key)
                    p5 == write_u32(p4, ak.offset + 4 + Len(key), av.offset)
                    ah == lib_allocate_space_head(p5, 4)
                IN  IF ~ah.some THEN [res |-> "panic", page |-> ah.page]
                    ELSE IF sorted_table = <<>> \/ index = Len(sorted_table) - 1
                    THEN [res |-> "true", page |-> write_u32(ah.page, ah.offset, ak.offset)]
                    ELSE LET move_offset == lib_SORTED_TABLE + 4 * index
                             bytes_to_move == read_bytes(ah.page, move_offset,
                                                         (Len(sorted_table) - index) * 4)
                             p6 == write_bytes(ah.page, move_offset + 4, bytes_to_move)
                         IN  [res |-> "true", page |-> write_u32(p6, move_offset, ak.offset)]

lib_insert(impl, p, key, value) ==
    LET sorted_table == lib_get_sorted_table(p)
        found == binary_search(impl, p, key, sorted_table)
    IN  IF found[1] THEN lib_override_value(p, sorted_table, found[2], value)
        ELSE lib_insert_value(p, sorted_table, found[2], key, value)

InitLib ==
    /\ searchImpl \in {"loop", "halving"}
    /\ page = lib_init(ZeroRegion, PageLength)
    /\ prev = ZeroRegion
    /\ lastOp = NoOp
    /\ lastRes = "ok"
    /\ lastGot = NoneValue
    /\ live = [k \in Keys |-> Absent]
    /\ prior = Absent
    /\ nops = 0
    /\ NoController

LibInsert(key, value) ==
    /\ nops < MaxOps
    /\ LET r == lib_insert(searchImpl, page, key, value)
       IN  /\ page' = r.page
           /\ lastRes' = r.res
           /\ live' = IF r.res = "true"
                      THEN [live EXCEPT ![key] = [st |-> "live", val |-> value]]
                      ELSE live
    /\ prev' = page
    /\ lastOp' = [op |-> "insert", key |-> key, value |-> value]
    /\ lastGot' = NoneValue
    /\ prior' = live[key]
    /\ nops' = nops + 1
    /\ UNCHANGED <<searchImpl, file, mete_data, root_node>>

LibGet(key) ==
    /\ lastOp.op # "get"
    /\ LET r == lib_get(searchImpl, page, key)
       IN  /\ lastGot' = r.got
           /\ lastRes' = r.res
    /\ lastOp' = [op |-> "get", key |-> key, value |-> <<>>]
    /\ prev' = page
    /\ prior' = live[key]
    /\ UNCHANGED <<page, searchImpl, live, nops, file, mete_data, root_node>>

NextLib ==
    \/ \E key \in Keys, value \in Values : LibInsert(key, value)
    \/ \E key \in Keys : LibGet(key)

SpecLib == InitLib /\ [][NextLib]_vars

(* ---------------- vocabulary of the properties ---------------- *)
head_of(p) == get_data_head_offset(p)

tail_of(p) == get_data_tail_offset(p)

\* the keys the slot directory references, in directory order
directory_keys(p) ==
    LET sorted_table == get_sorted_table(p)
    IN  [i \in 1..Len(sorted_table) |-> key_data(p, sorted_table[i])]

\* the slots (1-based) whose key record holds `key`
slots_of(p, key) == {i \in 1..Len(get_sorted_table(p)) : directory_keys(p)[i] = key}

in_directory(p, key) == slots_of(p, key) # {}

\* the record [deleted, value] behind slot i
record_at(p, i) == get_value_by_key_offset(p, get_sorted_table(p)[i])

\* bytes a new key needs: key record, value record and one slot
needed_space(key, value) ==
    get_key_required_space(key) + get_value_required_space(value) + 4

IsInsert == lastOp.op = "insert"

IsDelete == lastOp.op = "delete"

(* C1: whenever insert_key_value(k, v) returns true, the get_value(k) that
   follows returns exactly v. *)
C1_RoundTrip ==
    (IsInsert /\ lastRes = "true")
        => get_value(searchImpl, page, lastOp.key) = SomeValue(lastOp.value)

(* C2: the keys referenced by the slot directory are strictly ascending in
   unsigned byte-lexicographic order. *)
C2_SortOrder ==
    \A i \in 1..(Len(directory_keys(page)) - 1) :
        cmp(directory_keys(page)[i], directory_keys(page)[i + 1]) = "Less"

(* C3: LeafPage::from on the same region succeeds and every key whose most
   recent successful mutating operation was an insert of v reads back v. *)
C3_ReopenKeepsLiveKeys ==
    lastOp.op = "from"
        => /\ lastRes = "ok"
           /\ \A k \in Keys :
                live[k].st = "live"
                    => get_value(searchImpl, page, k) = SomeValue(live[k].val)

(* C4: an insert of a key that is not in the directory into a page whose
   free space is below the bytes the insert needs returns false and leaves
   data_head_offset and data_tail_offset unchanged (no unwrap fails). *)
C4_PageFullIsFalse ==
    (/\ IsInsert
     /\ ~in_directory(prev, lastOp.key)
     /\ get_free_space(prev) < needed_space(lastOp.key, lastOp.value))
        => /\ lastRes = "false"
           /\ head_of(page) = head_of(prev)
           /\ tail_of(page) = tail_of(prev)

(* C5: whenever insert_key_value returns false, every byte of the page is
   what it was before the call. *)
C5_RejectedIsAtomic ==
    (IsInsert /\ lastRes = "false") => page = prev

\* a new key is turned away although its value record alone would have fitted
C5_Witness ==
    /\ IsInsert
    /\ lastRes = "false"
    /\ ~in_directory(prev, lastOp.key)
    /\ get_free_space(prev) >= get_value_required_space(lastOp.value)

(* C6: insert(k, v1) returning true and later insert(k, v2), v1 # v2,
   returning true (no delete of k in between) makes get_value(k) return v2. *)
C6_OverrideReplaces ==
    (/\ IsInsert
     /\ lastRes = "true"
     /\ prior.st = "live"
     /\ prior.val # lastOp.value)
        => get_value(searchImpl, page, lastOp.key) = SomeValue(lastOp.value)

(* C7: insert_key_value(k, v) on a key whose stored value already equals v
   returns true, leaves both offsets unchanged, leaves the tombstone cleared
   and get_value(k) = v. *)
C7_OverrideIdempotent ==
    (/\ IsInsert
     /\ in_directory(prev, lastOp.key)
     /\ \A i \in slots_of(prev, lastOp.key) : record_at(prev, i).value = lastOp.value)
        => /\ lastRes = "true"
           /\ head_of(page) = head_of(prev)
           /\ tail_of(page) = tail_of(prev)
           /\ \A i \in slots_of(page, lastOp.key) : ~record_at(page, i).deleted
           /\ get_value(searchImpl, page, lastOp.key) = SomeValue(lastOp.value)

(* C8: after a successful insert of k, delete_value(k) returns true and
   get_value(k) is None; a later successful insert(k, v2) makes
   get_value(k) return v2. *)
C8_Tombstone ==
    /\ (IsDelete /\ prior.st = "live")
          => /\ lastRes = "true"
             /\ get_value(searchImpl, page, lastOp.key) = NoneValue
    /\ (IsInsert /\ lastRes = "true" /\ prior.st = "deleted")
          => get_value(searchImpl, page, lastOp.key) = SomeValue(lastOp.value)

(* C9: delete_value on a key whose tombstone flag is already set returns
   false. *)
C9_DeleteOfDeletedFails ==
    (/\ IsDelete
     /\ in_directory(prev, lastOp.key)
     /\ \A i \in slots_of(prev, lastOp.key) : record_at(prev, i).deleted)
        => lastRes = "false"

(* C10: delete_value(k) for a key never successfully inserted into the page
   returns false and leaves every byte of the page unchanged. *)
C10_DeleteOfAbsentKey ==
    (IsDelete /\ prior.st = "absent") => (lastRes = "false" /\ page = prev)

\* an absent key is deleted from a page that holds other keys
C10_Witness ==
    /\ IsDelete
    /\ prior.st = "absent"
    /\ Len(get_sorted_table(prev)) >= 2
    /\ lastRes = "false"

\* position of the tombstone byte of the key record behind slot i
tombstone_position(p, i) ==
    LET key_offset == get_sorted_table(p)[i]
    IN  get_value_deleted_position(key_offset, read_u32(p, key_offset))

(* C11: delete_value(k) on a present (slotted, not tombstoned) key changes
   exactly one byte, the tombstone flag of k's key record, which becomes 1;
   offsets, slots, value pointer and heap are unchanged and get_value of
   every other key returns what it returned before. *)
C11_LogicalDeleteOnly ==
    (/\ IsDelete
     /\ in_directory(prev, lastOp.key)
     /\ \A i \in slots_of(prev, lastOp.key) : ~record_at(prev, i).deleted)
        => /\ \E i \in slots_of(prev, lastOp.key) :
                /\ page = [prev EXCEPT ![tombstone_position(prev, i)] = 1]
                /\ page # prev
           /\ \A k \in Keys \ {lastOp.key} :
                get_value(searchImpl, page, k) = get_value(searchImpl, prev, k)

(* C12: SORTED_TABLE <= data_head_offset <= data_tail_offset <= capacity in
   every reachable state, also after calls that are rejected. *)
C12_LayoutInvariant ==
    /\ SORTED_TABLE <= head_of(page)
    /\ head_of(page) <= tail_of(page)
    /\ tail_of(page) <= get_capacity(page)
    /\ get_capacity(page) = PageLength

\* an insert into a page that is too full for it has just been turned away
\* or has stopped half way
C12_Witness ==
    /\ IsInsert
    /\ lastRes \in {"false", "panic"}
    /\ get_free_space(page) < 4

\* the conditions of the open-time validation, read off the bytes
well_formed(p, header, table_start) ==
    /\ p[HEADER] = header
    /\ read_u32(p, CAPACITY) = PageLength
    /\ read_u32(p, DATA_HEAD_OFFSET) >= table_start
    /\ read_u32(p, DATA_HEAD_OFFSET) <= read_u32(p, DATA_TAIL_OFFSET)
    /\ read_u32(p, DATA_TAIL_OFFSET) <= PageLength

(* C13: LeafPage::from (InnerPage::from) returns a page if and only if the
   header byte is the kind's constant, the stored capacity is the mapped
   length, data_head_offset >= the kind's table start and data_head_offset
   <= data_tail_offset <= length; a region of the other kind and an
   all-zero region are never opened. *)
C13_OpenValidation ==
    /\ lastOp.op = "from"
          => (lastRes = "ok" <=> well_formed(page, LEAF_HEADER, SORTED_TABLE))
    /\ lastOp.op = "inner_from"
          => (lastRes = "ok" <=> well_formed(page, INNER_HEADER, INNER_SORTED_TABLE))
    /\ lastOp.op \in {"from", "inner_from"}
          => /\ lastRes \in {"ok", "err"}
             /\ page = ZeroRegion => lastRes = "err"
             /\ (lastOp.op = "from" /\ page[HEADER] = INNER_HEADER) => lastRes = "err"
             /\ (lastOp.op = "inner_from" /\ page[HEADER] = LEAF_HEADER) => lastRes = "err"

\* a region with the right header and capacity is refused for its offsets
C13_Witness ==
    /\ lastOp.op = "from"
    /\ lastRes = "err"
    /\ page[HEADER] = LEAF_HEADER
    /\ read_u32(page, CAPACITY) = PageLength
    /\ read_u32(page, DATA_TAIL_OFFSET) > PageLength

(* C14: right after LeafPage::new the header byte is 0b1000_0000, capacity
   is the length, data_head_offset is 25, data_tail_offset is the length,
   the directory is empty and get_value of every key is None, whatever the
   region held before; InnerPage::new gives header 0b1000_0001, head 21 and
   tail = length. *)
C14_InitialState ==
    /\ lastOp.op = "new"
          => /\ page[HEADER] = 128
             /\ read_u32(page, CAPACITY) = PageLength
             /\ read_u32(page, DATA_HEAD_OFFSET) = 25
             /\ read_u32(page, DATA_TAIL_OFFSET) = PageLength
             /\ get_sorted_table(page) = <<>>
             /\ \A k \in Keys : get_value(searchImpl, page, k) = NoneValue
    /\ lastOp.op = "inner_new"
          => /\ page[HEADER] = 129
             /\ read_u32(page, DATA_HEAD_OFFSET) = 21
             /\ read_u32(page, DATA_TAIL_OFFSET) = PageLength

\* new on a region whose header fields held other values
C14_Witness ==
    /\ lastOp.op = "new"
    /\ prev[HEADER] = INNER_HEADER
    /\ read_u32(prev, DATA_HEAD_OFFSET) # 25

\* the bytes of p and q agree outside [offset, offset + length)
same_outside(p, q, offset, length) ==
    \A i \in DOMAIN p : (i < offset \/ i >= offset + length) => p[i] = q[i]

(* C17: write_u8 / write_u32 / write_bytes followed by the matching read
   returns what was written, a u32 occupies exactly 4 bytes with byte
   offset + i holding bits 8i..8i+7, and no byte outside the addressed
   range changes. *)
C17_ByteRoundTrip ==
    /\ lastOp.op = "write_u8"
          => /\ read_u8(page, lastOp.offset) = lastOp.byte
             /\ same_outside(page, prev, lastOp.offset, 1)
    /\ lastOp.op = "write_u32"
          => /\ read_u32(page, lastOp.offset) = lastOp.word
             /\ \A i \in 0..3 :
                   page[lastOp.offset + i] = (lastOp.word \div (256 ^ i)) % 256
             /\ same_outside(page, prev, lastOp.offset, 4)
    /\ lastOp.op = "write_bytes"
          => /\ read_bytes(page, lastOp.offset, Len(lastOp.bytes)) = lastOp.bytes
             /\ same_outside(page, prev, lastOp.offset, Len(lastOp.bytes))

\* a word with four different bytes is written over bytes that were set before
C17_Witness ==
    /\ lastOp.op = "write_u32"
    /\ lastOp.word = 16909060
    /\ read_u32(prev, lastOp.offset) = 2147483647

\* the state of a key as the page records it: no slot, a slot whose record
\* is not tombstoned, or only tombstoned records
state_of(p, key) ==
    IF ~in_directory(p, key) THEN "absent"
    ELSE IF \E i \in slots_of(p, key) : ~record_at(p, i).deleted THEN "live"
    ELSE "tombstoned"

LifecycleSteps ==
    {<<"absent", "absent">>, <<"absent", "live">>, <<"live", "live">>,
     <<"live", "tombstoned">>, <<"tombstoned", "tombstoned">>, <<"tombstoned", "live">>}

(* C15: on one page a key moves only along absent -> live -> tombstoned ->
   live -> ...; a key with a slot never becomes absent again, only
   insert_key_value(k, _) and delete_value(k) change k's state, and
   get_value changes no byte of the page. *)
C15_KeyLifecycle ==
    /\ lastOp.op = "get" => page = prev
    /\ lastOp.op \in {"insert", "delete"}
          => \A k \in Keys :
                /\ <<state_of(prev, k), state_of(page, k)>> \in LifecycleSteps
                /\ k # lastOp.key => state_of(page, k) = state_of(prev, k)

\* the bytes of the value record that the key record behind slot i points to
value_record_bytes(p, i) ==
    LET key_offset == get_sorted_table(p)[i]
        value_offset ==
            read_u32(p, get_value_offset_position(key_offset, read_u32(p, key_offset)))
    IN  value_offset .. (value_offset + 4 + read_u32(p, value_offset) - 1)

\* the bytes of the key record behind slot i that hold its value pointer
value_pointer_bytes(p, i) ==
    LET key_offset == get_sorted_table(p)[i]
        position == get_value_offset_position(key_offset, read_u32(p, key_offset))
    IN  position .. (position + 3)

(* C16: across insert_key_value, delete_value and get_value on one page
   data_tail_offset never increases, data_head_offset never decreases, free
   space never increases and no byte of a written value record changes: in
   the heap as it was, only tombstone bytes and value pointers of key
   records are ever rewritten. *)
C16_MonotonicFill ==
    lastOp.op \in {"insert", "delete", "get"}
        => /\ tail_of(page) <= tail_of(prev)
           /\ head_of(page) >= head_of(prev)
           /\ get_free_space(page) <= get_free_space(prev)
           /\ \A i \in 1..Len(get_sorted_table(prev)) :
                 \A b \in value_record_bytes(prev, i) : page[b] = prev[b]
           /\ \A b \in tail_of(prev)..(PageLength - 1) :
                 page[b] # prev[b]
                    => \E i \in 1..Len(get_sorted_table(prev)) :
                          \/ b = tombstone_position(prev, i)
                          \/ b \in value_pointer_bytes(prev, i)

\* a value has just been replaced by a different one; the old record stays
C16_Witness ==
    /\ IsInsert
    /\ lastRes = "true"
    /\ in_directory(prev, lastOp.key)
    /\ head_of(page) = head_of(prev)
    /\ tail_of(page) < tail_of(prev)

(* C18: when insert_key_value succeeds for a key that binary_search does
   not find, with insertion point i in a directory D of length n, the
   directory afterwards is D[0..i) ++ [new_key_offset] ++ D[i..n). *)
C18_DirectoryUpdate ==
    LET D == get_sorted_table(prev)
        found == binary_search(searchImpl, prev, lastOp.key, D)
    IN  (IsInsert /\ lastRes = "true" /\ ~found[1])
            => get_sorted_table(page)
                   = SubSeq(D, 1, found[2]) \o <<tail_of(page)>>
                         \o SubSeq(D, found[2] + 1, Len(D))

\* a sorts strictly before b: at the first position where they differ a has
\* the smaller byte, or a ends there
lex_less(a, b) ==
    \E j \in 1..(Len(b)) :
        /\ \A m \in 1..(j - 1) : m <= Len(a) /\ a[m] = b[m]
        /\ (j > Len(a) \/ (j <= Len(a) /\ a[j] < b[j]))
        /\ j - 1 <= Len(a)

strictly_ascending(p) ==
    \A i \in 1..(Len(directory_keys(p)) - 1) :
        lex_less(directory_keys(p)[i], directory_keys(p)[i + 1])

(* C19: on a directory whose keys are strictly ascending, binary_search
   returns (false, 0) for an empty table, (true, i) with slot i holding the
   key when there is one, and otherwise (false, p) with p the number of
   directory keys that sort before the key. *)
C19_BinarySearchContract ==
    strictly_ascending(page)
        => \A key \in Keys :
              LET sorted_table == get_sorted_table(page)
                  r == binary_search(searchImpl, page, key, sorted_table)
              IN  /\ sorted_table = <<>> => r = <<FALSE, 0>>
                  /\ in_directory(page, key)
                        => r[1] /\ directory_keys(page)[r[2] + 1] = key
                  /\ ~in_directory(page, key)
                        => r = <<FALSE,
                                 Cardinality({i \in 1..Len(sorted_table) :
                                                 lex_less(directory_keys(page)[i], key)})>>

\* a key that extends the first key is looked up between two sorted keys
C19_Witness ==
    /\ lastOp.op = "get"
    /\ lastOp.key = <<1, 2>>
    /\ directory_keys(page) = << <<1>>, <<2>> >>
    /\ lastGot = NoneValue

(* C20: after a successful insert_key_value of a key that was not in the
   directory, the tombstone byte of the new key record is 0, whatever the
   heap held before, and get_value returns the inserted value. *)
C20_NewKeyIsLive ==
    LET key_offset == tail_of(page)
        deleted_position == get_value_deleted_position(key_offset, read_u32(page, key_offset))
    IN  (IsInsert /\ lastRes = "true" /\ ~in_directory(prev, lastOp.key))
            => /\ read_u8(page, deleted_position) = 0
               /\ get_value_by_key_offset(page, key_offset)
                      = [deleted |-> FALSE, value |-> lastOp.value]

(* C21: an insert_key_value whose key binary_search finds, with a value
   different from the stored one, returns true exactly when free space >=
   value.len() + 4; on success the tail drops by value.len() + 4, the head
   and the slot directory are unchanged, the key record's value pointer is
   the new tail, its tombstone byte is 0 and the old value record keeps its
   bytes. *)
C21_OverrideSpace ==
    LET D == get_sorted_table(prev)
        found == binary_search(searchImpl, prev, lastOp.key, D)
        key_offset == D[found[2] + 1]
        key_size == read_u32(prev, key_offset)
        old == get_value_by_key_offset(prev, key_offset)
        old_value_offset == read_u32(prev, get_value_offset_position(key_offset, key_size))
        n == Len(lastOp.value) + 4
    IN  (IsInsert /\ found[1] /\ old.value # lastOp.value)
            => /\ lastRes = "true" <=> get_free_space(prev) >= n
               /\ lastRes = "true"
                    => /\ tail_of(page) = tail_of(prev) - n
                       /\ head_of(page) = head_of(prev)
                       /\ get_sorted_table(page) = D
                       /\ read_u32(page, get_value_offset_position(key_offset, key_size))
                              = tail_of(page)
                       /\ read_u8(page, get_value_deleted_position(key_offset, key_size)) = 0
                       /\ read_bytes(page, old_value_offset, 4 + Len(old.value))
                              = read_bytes(prev, old_value_offset, 4 + Len(old.value))

\* the free space the admission check of insert_value demands
admitted_space(key, value) == 4 + Len(key) + 4 + 4 + Len(value) + 4

(* C22: a successful insert_key_value of a key not in the directory advances
   the head by 4 and lowers the tail by key.len() + value.len() + 13, so free
   space drops by key.len() + value.len() + 17, and that drop is at most the
   free space the admission check demanded. *)
C22_InsertSpace ==
    LET k == Len(lastOp.key)
        v == Len(lastOp.value)
    IN  (IsInsert /\ lastRes = "true" /\ ~in_directory(prev, lastOp.key))
            => /\ head_of(page) = head_of(prev) + 4
               /\ tail_of(page) = tail_of(prev) - (k + v + 13)
               /\ get_free_space(prev) - get_free_space(page) = k + v + 17
               /\ get_free_space(prev) - get_free_space(page)
                      <= admitted_space(lastOp.key, lastOp.value)

(* C23: Controller::from opens and validates as the root node the region
   whose header byte it inspected: the region at mete_data's root page
   offset, of page_size bytes, for every root page offset. *)
C23_RootRegion ==
    root_node # NoNode
        => root_node = Node_from(file, mete_data.root_page_offset, mete_data.page_size,
                                 root_node_type(file, mete_data))

(* C24: in the page module of lib.rs, on one open LeafPage, insert(k, v1)
   returning true followed by insert(k, v2) with v1 # v2 returning true makes
   get(k) return v2, leaves the slot directory referencing the same key
   records, and leaves get of every other key as it was. *)
C24_LibOverride ==
    (lastOp.op = "insert" /\ lastRes = "true" /\ prior.st = "live"
            /\ prior.val # lastOp.value)
        => /\ lib_get(searchImpl, page, lastOp.key) = [res |-> "ok", got |-> SomeValue(lastOp.value)]
           /\ lib_get_sorted_table(page) = lib_get_sorted_table(prev)
           /\ \A key \in Keys \ {lastOp.key} :
                  lib_get(searchImpl, page, key) = lib_get(searchImpl, prev, key)

\* the keys for which an insert_key_value has returned true since LeafPage::new
inserted_keys == {key \in Keys : live[key].st # "absent"}

(* C25: no two slot directory entries reference byte-equal keys, and the
   slot count (data_head_offset - 25) / 4 equals the number of distinct keys
   for which an insert_key_value has returned true. *)
C25_OneSlotPerKey ==
    /\ \A i, j \in 1..Len(get_sorted_table(page)) :
           i # j => directory_keys(page)[i] # directory_keys(page)[j]
    /\ (head_of(page) - SORTED_TABLE) \div 4 = Cardinality(inserted_keys)

\* [offset, offset + length) lies inside the heap of p
in_heap(p, offset, length) == tail_of(p) <= offset /\ offset + length <= get_capacity(p)

(* C26: every slot directory entry is the offset of a complete key record
   inside the heap [data_tail_offset, capacity), and that record's value
   pointer is the offset of a complete value record inside the heap. *)
C26_ReferentialIntegrity ==
    \A i \in 1..Len(get_sorted_table(page)) :
        LET key_offset == get_sorted_table(page)[i]
            key_size == read_u32(page, key_offset)
            value_offset == read_u32(page, get_value_offset_position(key_offset, key_size))
        IN  /\ in_heap(page, key_offset, 4)
            /\ in_heap(page, key_offset, 4 + key_size + 1 + 4)
            /\ in_heap(page, value_offset, 4)
            /\ in_heap(page, value_offset, 4 + read_u32(page, value_offset))

\* at least two keys are slotted and one of them has had its value replaced
C26_Witness ==
    /\ Len(get_sorted_table(page)) >= 2
    /\ IsInsert
    /\ lastRes = "true"
    /\ in_directory(prev, lastOp.key)
    /\ get_sorted_table(page) = get_sorted_table(prev)
    /\ tail_of(page) < tail_of(prev)

(* C27: for distinct keys k and k', insert_key_value(k, _) or
   delete_value(k), accepted or rejected, leaves get_value(k') as it was. *)
C27_KeyIsolation ==
    ((IsInsert \/ IsDelete) /\ lastRes \in {"true", "false"})
        => \A key \in Keys \ {lastOp.key} :
               get_value(searchImpl, page, key) = get_value(searchImpl, prev, key)

TypeOK ==
    /\ page \in [0..(PageLength - 1) -> 0..255]
    /\ lastRes \in {"ok", "err", "true", "false", "panic"}
    /\ nops \in 0..MaxOps
    /\ file \in [0..(FilePages * FilePageSize - 1) -> 0..255]
    /\ mete_data.root_page_offset \in PageOffsets
    /\ root_node.res \in {"none", "ok", "err"}

====
